---- MODULE Spec2Model ----
(***************************************************************************)
(* RingBuffer<T, value> of src/src/RingBuffer.h: a fixed-capacity circular *)
(* buffer over a caller-supplied array, with unprotected (write, read) and *)
(* protected (p_write, p_read) operations.                                 *)
(*                                                                         *)
(* Program state: the fields of struct ringBuff (addr, arrLen, readPos,    *)
(* writePos, flags).  Every other variable is an observer of the calls     *)
(* made so far (what the last call returned, how many writes were          *)
(* accepted, which slots hold unread data, ...) and never feeds back into  *)
(* the program state.                                                      *)
(***************************************************************************)
EXTENDS Integers, Sequences, FiniteSets

\* ------------------------------------------------------------------ bounds
MaxCap == 2     \* capacities 1..MaxCap are explored
MaxVal == 1     \* elements are drawn from 0..MaxVal
MaxOps == 5     \* calls made on one buffer
MaxJunk == 3    \* bytes of unassigned memory are drawn from 0..MaxJunk

\* --------------------------------------------------------------- constants
FLAG_FULL  == 1
FLAG_EMPTY == 2
U8 == 256       \* uint8_t arithmetic is modulo 2^8

Values == 0..MaxVal
Byte   == 0..(U8 - 1)

VARIABLES
    addr,       \* the backing array, indexed 0..arrLen-1
    arrLen,     \* number of elements
    readPos,    \* read cursor
    writePos,   \* write cursor
    flags,      \* FLAG_FULL | FLAG_EMPTY bits
    last,       \* observer: the last call and what it returned
    steps,      \* observer: number of calls made
    unread,     \* observer: slots written and not yet returned by a read
    balance,    \* observer: accepted writes minus advancing reads
    accRet,     \* observer: calls so far that stored; return of the latest
    advItem,    \* observer: reads so far that advanced; item of the latest
    run,        \* observer: the leading "k writes, then reads" run of calls
    streak,     \* observer: the write calls made in a row just now
    twin,       \* a RingBuffer<T, 1> given the same array and the same calls
    calc        \* the index p_read computes with EMPTY set, once computed

prog == <<addr, arrLen, readPos, writePos, flags>>
obs  == <<last, steps, unread, balance, accRet, advItem, run, streak>>
vars == <<addr, arrLen, readPos, writePos, flags,
          last, steps, unread, balance, accRet, advItem, run, streak, twin,
          calc>>

\* ------------------------------------------------------- bit-mask macros
\* x & y for a single-bit mask y
CHECK_BITMASK(x, y) == IF (x \div y) % 2 = 1 THEN y ELSE 0
\* x |= y
SET_BITMASK(x, y) == x + y - CHECK_BITMASK(x, y)
\* x &= y, the mask not inverted
CLEAR_BITMASK_NoInvert(x, y) == CHECK_BITMASK(x, y)
\* x &= ~y
CLEAR_BITMASK(x, y) == x - CHECK_BITMASK(x, y)

isFull  == CHECK_BITMASK(flags, FLAG_FULL) # 0
isEmpty == CHECK_BITMASK(flags, FLAG_EMPTY) # 0

\* ------------------------------------------------------ uint8_t helpers
Inc8(x) == (x + 1) % U8
Dec8(x) == (x + U8 - 1) % U8

\* A pointer into (or out of) the array, as an element offset from addr.
\* Every offset at or past arrLen refers to no element of the array and is
\* recorded as arrLen.
Item(i) == IF i < arrLen THEN i ELSE arrLen
\* The elements the caller may find behind a returned pointer: the slot's
\* contents, or anything when the pointer refers to no slot.
Deref(i) == IF i < arrLen THEN {addr[i]} ELSE Values

\* ------------------------------------------------------------ construction
\* RingBuffer(arr, elements): stores the array and its length.  The cursors
\* and the flags are not assigned by the constructor; the buffer modelled
\* here has static storage duration, so they are zero before the
\* constructor runs.  The array comes from the caller with any contents.
RingBuffer(arr, elements) ==
    /\ addr = arr
    /\ arrLen = elements
    /\ readPos = 0
    /\ writePos = 0
    /\ flags = 0

\* The constructor as a step on the object's memory: it assigns addr and
\* arrLen and leaves readPos, writePos and flags as the memory held them.
Construct(arr, elements) ==
    /\ addr' = arr
    /\ arrLen' = elements
    /\ UNCHANGED <<readPos, writePos, flags>>

\* ------------------------------------------------------------- operations
\* Each operation sets the program state and `last`, the record of the call:
\*   op    the method called
\*   ok    TRUE when the call stored (writes) or advanced (reads)
\*   data  the element passed in (writes)
\*   ret   the uint8_t returned (writes)
\*   item  the pointer returned (reads), as Item(offset)
\*   val   the elements the caller may find behind that pointer (reads)
NoCall == [op |-> "none", ok |-> FALSE, data |-> 0, ret |-> 0, item |-> 0, val |-> {}]

\* write without the `%= arrLen` that bounds the cursor
write_NoWrap(data) ==
    /\ addr' = [addr EXCEPT ![writePos] = data]
    /\ writePos' = Inc8(writePos)
    /\ UNCHANGED <<arrLen, readPos, flags>>
    /\ last' = [NoCall EXCEPT !.op = "write", !.ok = TRUE, !.data = data,
                              !.ret = writePos']

\* write that advances the cursor before it stores (addr[++writePos])
write_PreInc(data) ==
    /\ addr' = [addr EXCEPT ![Inc8(writePos) % arrLen] = data]
    /\ writePos' = Inc8(writePos) % arrLen
    /\ UNCHANGED <<arrLen, readPos, flags>>
    /\ last' = [NoCall EXCEPT !.op = "write", !.ok = TRUE, !.data = data,
                              !.ret = writePos']

\* uint8_t write(T const *data)
write(data) ==
    /\ addr' = [addr EXCEPT ![writePos] = data]
    /\ writePos' = Inc8(writePos) % arrLen
    /\ UNCHANGED <<arrLen, readPos, flags>>
    /\ last' = [NoCall EXCEPT !.op = "write", !.ok = TRUE, !.data = data,
                              !.ret = writePos']

\* read with the cursor incremented before the access (addr[++readPos])
read_PreInc ==
    /\ readPos' = Inc8(readPos) % arrLen
    /\ UNCHANGED <<addr, arrLen, writePos, flags>>
    /\ last' = [NoCall EXCEPT !.op = "read", !.ok = TRUE,
                              !.item = Item(Inc8(readPos)),
                              !.val = Deref(Inc8(readPos))]

\* read that also clears FULL, as p_read does
read_ClearFull ==
    /\ readPos' = Inc8(readPos) % arrLen
    /\ flags' = CLEAR_BITMASK(flags, FLAG_FULL)
    /\ UNCHANGED <<addr, arrLen, writePos>>
    /\ last' = [NoCall EXCEPT !.op = "read", !.ok = TRUE,
                              !.item = Item(readPos), !.val = Deref(readPos)]

\* T* read()
read ==
    /\ readPos' = Inc8(readPos) % arrLen
    /\ UNCHANGED <<addr, arrLen, writePos, flags>>
    /\ last' = [NoCall EXCEPT !.op = "read", !.ok = TRUE,
                              !.item = Item(readPos), !.val = Deref(readPos)]

\* p_write, FULL set: ret = writePos - 1, clamped to arrLen
FullRet(wp, len) ==
    LET ret == Dec8(wp) IN IF ret > len THEN len ELSE ret

\* p_write that stores the data before looking at FULL
p_write_StoreFirst(data) ==
    IF CHECK_BITMASK(flags, FLAG_FULL) # 0
    THEN /\ addr' = [addr EXCEPT ![writePos] = data]
         /\ UNCHANGED <<arrLen, readPos, writePos, flags>>
         /\ last' = [NoCall EXCEPT !.op = "p_write", !.ok = FALSE, !.data = data,
                                   !.ret = FullRet(writePos, arrLen)]
    ELSE LET ret == Inc8(writePos) % arrLen
             cleared == CLEAR_BITMASK(flags, FLAG_EMPTY)
         IN  /\ addr' = [addr EXCEPT ![writePos] = data]
             /\ writePos' = ret
             /\ flags' = IF ret = readPos THEN SET_BITMASK(cleared, FLAG_FULL)
                                          ELSE cleared
             /\ UNCHANGED <<arrLen, readPos>>
             /\ last' = [NoCall EXCEPT !.op = "p_write", !.ok = TRUE,
                                       !.data = data, !.ret = ret]

\* p_write that tests for FULL with the cursor not yet wrapped
p_write_UnwrappedCompare(data) ==
    IF CHECK_BITMASK(flags, FLAG_FULL) # 0
    THEN /\ UNCHANGED prog
         /\ last' = [NoCall EXCEPT !.op = "p_write", !.ok = FALSE, !.data = data,
                                   !.ret = FullRet(writePos, arrLen)]
    ELSE LET ret == Inc8(writePos) % arrLen
             cleared == CLEAR_BITMASK(flags, FLAG_EMPTY)
         IN  /\ addr' = [addr EXCEPT ![writePos] = data]
             /\ writePos' = ret
             /\ flags' = IF Inc8(writePos) = readPos
                          THEN SET_BITMASK(cleared, FLAG_FULL)
                          ELSE cleared
             /\ UNCHANGED <<arrLen, readPos>>
             /\ last' = [NoCall EXCEPT !.op = "p_write", !.ok = TRUE,
                                       !.data = data, !.ret = ret]

\* uint8_t p_write(T const *data)
p_write(data) ==
    IF CHECK_BITMASK(flags, FLAG_FULL) # 0
    THEN /\ UNCHANGED prog
         /\ last' = [NoCall EXCEPT !.op = "p_write", !.ok = FALSE, !.data = data,
                                   !.ret = FullRet(writePos, arrLen)]
    ELSE LET ret == Inc8(writePos) % arrLen
             cleared == CLEAR_BITMASK(flags, FLAG_EMPTY)
         IN  /\ addr' = [addr EXCEPT ![writePos] = data]
             /\ writePos' = ret
             /\ flags' = IF ret = readPos THEN SET_BITMASK(cleared, FLAG_FULL)
                                          ELSE cleared
             /\ UNCHANGED <<arrLen, readPos>>
             /\ last' = [NoCall EXCEPT !.op = "p_write", !.ok = TRUE,
                                       !.data = data, !.ret = ret]

\* p_read, EMPTY set: index = readPos - 1, clamped to arrLen - 1
EmptyIndex(rp, len) ==
    LET index == Dec8(rp) IN IF index > len THEN len - 1 ELSE index

\* p_read that tests for EMPTY before it increments index
p_read_CompareBefore ==
    IF CHECK_BITMASK(flags, FLAG_EMPTY) # 0
    THEN \E item \in Byte :
           /\ UNCHANGED prog
           /\ last' = [NoCall EXCEPT !.op = "p_read", !.ok = FALSE,
                                     !.item = Item(item), !.val = Deref(item)]
    ELSE \E index \in Byte :
           LET next == Inc8(index)
               cleared == CLEAR_BITMASK(flags, FLAG_FULL)
           IN  /\ readPos' = next % arrLen
               /\ flags' = IF index = writePos
                            THEN SET_BITMASK(cleared, FLAG_EMPTY)
                            ELSE cleared
               /\ UNCHANGED <<addr, arrLen, writePos>>
               /\ last' = [NoCall EXCEPT !.op = "p_read", !.ok = TRUE,
                                         !.item = Item(index), !.val = Deref(index)]

\* T* p_read()
\* `index` and `item` are declared without a value.  With EMPTY set, index
\* is computed but item is returned as declared: any pointer.  With EMPTY
\* clear, index is used as declared: any uint8_t.
p_read ==
    IF CHECK_BITMASK(flags, FLAG_EMPTY) # 0
    THEN \E item \in Byte :
           LET index == EmptyIndex(readPos, arrLen) IN
             /\ index \in Byte
             /\ UNCHANGED prog
             /\ last' = [NoCall EXCEPT !.op = "p_read", !.ok = FALSE,
                                       !.item = Item(item), !.val = Deref(item)]
    ELSE \E index \in Byte :
           LET next == Inc8(index)
               cleared == CLEAR_BITMASK(flags, FLAG_FULL)
           IN  /\ readPos' = next % arrLen
               /\ flags' = IF next = writePos
                            THEN SET_BITMASK(cleared, FLAG_EMPTY)
                            ELSE cleared
               /\ UNCHANGED <<addr, arrLen, writePos>>
               /\ last' = [NoCall EXCEPT !.op = "p_read", !.ok = TRUE,
                                         !.item = Item(index), !.val = Deref(index)]

\* ------------------------------------------ RingBuffer<T, 1>, the value form
\* The specialization passes and returns elements by value.  Its state is
\* the record b: the fields of its ringBuff, `last` (the record of its last
\* call, with val the elements the returned T may be) and `due` (the call
\* made on the reference form that it has still to be given).  Each
\* operation yields the set of records the call may leave.
NoDue == [op |-> "none", data |-> 0]

\* uint8_t write(T data)
write1(b, data) ==
    LET wp == Inc8(b.writePos) % b.arrLen
    IN  {[b EXCEPT !.addr = [b.addr EXCEPT ![b.writePos] = data],
                   !.writePos = wp,
                   !.last = [NoCall EXCEPT !.op = "write", !.ok = TRUE,
                                           !.data = data, !.ret = wp]]}

\* T read()
read1(b) ==
    {[b EXCEPT !.readPos = Inc8(b.readPos) % b.arrLen,
               !.last = [NoCall EXCEPT !.op = "read", !.ok = TRUE,
                                       !.val = {b.addr[b.readPos]}]]}

\* uint8_t p_write(T const data)
p_write1(b, data) ==
    IF CHECK_BITMASK(b.flags, FLAG_FULL) # 0
    THEN {[b EXCEPT !.last = [NoCall EXCEPT !.op = "p_write", !.ok = FALSE,
                                            !.data = data,
                                            !.ret = FullRet(b.writePos, b.arrLen)]]}
    ELSE LET ret == Inc8(b.writePos) % b.arrLen
             cleared == CLEAR_BITMASK(b.flags, FLAG_EMPTY)
         IN  {[b EXCEPT !.addr = [b.addr EXCEPT ![b.writePos] = data],
                        !.writePos = ret,
                        !.flags = IF ret = b.readPos
                                  THEN SET_BITMASK(cleared, FLAG_FULL)
                                  ELSE cleared,
                        !.last = [NoCall EXCEPT !.op = "p_write", !.ok = TRUE,
                                                !.data = data, !.ret = ret]]}

\* T* p_read() of the value form
\* `index` and `item` (a T here) are declared without a value, as in the
\* reference form: with EMPTY set the T returned is any element, with EMPTY
\* clear it is addr[index] for any uint8_t index.
p_read1(b) ==
    IF CHECK_BITMASK(b.flags, FLAG_EMPTY) # 0
    THEN {[b EXCEPT !.last = [NoCall EXCEPT !.op = "p_read", !.ok = FALSE,
                                            !.val = Values]]}
    ELSE {LET next == Inc8(index)
              cleared == CLEAR_BITMASK(b.flags, FLAG_FULL)
          IN  [b EXCEPT !.readPos = next % b.arrLen,
                        !.flags = IF next = b.writePos
                                  THEN SET_BITMASK(cleared, FLAG_EMPTY)
                                  ELSE cleared,
                        !.last = [NoCall EXCEPT
                                    !.op = "p_read", !.ok = TRUE,
                                    !.val = IF index < b.arrLen
                                            THEN {b.addr[index]} ELSE Values]]
          : index \in Byte}

\* the call c made on the value form
Call1(b, c) ==
    CASE c.op = "write"   -> write1(b, c.data)
      [] c.op = "read"    -> read1(b)
      [] c.op = "p_write" -> p_write1(b, c.data)
      [] c.op = "p_read"  -> p_read1(b)

\* ---------------------------------------------------------------- observers
IsWrite(c) == c.op \in {"write", "p_write"}
IsRead(c)  == c.op \in {"read", "p_read"}
Family(c)  == IF c.op \in {"write", "read"} THEN "u" ELSE "p"

NoRun == [mode |-> "off", fam |-> "none", fill |-> <<>>, drain |-> <<>>]
FreshRun == [NoRun EXCEPT !.mode = "fill"]

\* The run of calls since construction, as long as it has the shape
\*   k stored writes of one family (k <= arrLen),
\*   any number of rejected p_write calls once k = arrLen,
\*   at most k reads of the same family;
\* fill holds the values written, drain the values the reads returned.
\* Any other call ends the run.
RunAfter(r, c) ==
    IF r.mode = "off" THEN NoRun
    ELSE IF IsWrite(c) /\ c.ok /\ r.mode = "fill" /\ r.fam \in {"none", Family(c)}
            /\ Len(r.fill) < arrLen
    THEN [r EXCEPT !.fam = Family(c), !.fill = Append(r.fill, c.data)]
    ELSE IF c.op = "p_write" /\ ~c.ok /\ r.mode = "fill" /\ r.fam = "p"
            /\ Len(r.fill) = arrLen
    THEN r
    ELSE IF IsRead(c) /\ r.fam = Family(c) /\ Len(r.drain) < Len(r.fill)
    THEN [r EXCEPT !.mode = "drain", !.drain = Append(r.drain, c.val)]
    ELSE NoRun

\* The write calls made in a row, ending with the last call: how many (n,
\* counted up to arrLen + 1, then from 1 again) and the cursors before the
\* first of them.  Any other call ends the streak.
NoStreak == [n |-> 0, wp |-> 0, rp |-> 0]
StreakAfter(k, c) ==
    IF c.op # "write" THEN NoStreak
    ELSE IF k.n = 0 \/ k.n > arrLen THEN [n |-> 1, wp |-> writePos, rp |-> readPos]
    ELSE [k EXCEPT !.n = @ + 1]

\* The observers after the call recorded in last'.
Track ==
    /\ steps' = steps + 1
    /\ unread' = IF IsWrite(last') /\ last'.ok THEN unread \cup {writePos}
                 ELSE IF IsRead(last') /\ last'.ok THEN unread \ {last'.item}
                 ELSE unread
    /\ balance' = IF IsWrite(last') /\ last'.ok THEN balance + 1
                  ELSE IF IsRead(last') /\ last'.ok THEN balance - 1
                  ELSE balance
    /\ accRet' = IF IsWrite(last') /\ last'.ok THEN {last'.ret} ELSE accRet
    /\ advItem' = IF IsRead(last') /\ last'.ok THEN {last'.item} ELSE advItem
    /\ run' = RunAfter(run, last')
    /\ streak' = StreakAfter(streak, last')

\* ------------------------------------------------------------ specifications
\* RingBuffer<T, 1>(arr, elements), with static storage duration as well
RingBuffer1(arr, elements) ==
    [addr |-> arr, arrLen |-> elements, readPos |-> 0, writePos |-> 0,
     flags |-> 0, last |-> NoCall, due |-> NoDue]
\* no value-form buffer is constructed
NoTwin == RingBuffer1(<<>>, 0)

Fresh ==
    /\ \E n \in 1..MaxCap : \E arr \in [0..(n - 1) -> Values] : RingBuffer(arr, n)
    /\ last = NoCall
    /\ steps = 0
    /\ unread = {}
    /\ balance = 0
    /\ accRet = {}
    /\ advItem = {}
    /\ run = FreshRun
    /\ streak = NoStreak

\* one reference-form buffer
NoCalc == [index |-> 0, done |-> FALSE]
Init == Fresh /\ twin = NoTwin /\ calc = NoCalc

Write  == steps < MaxOps /\ (\E d \in Values : write(d) /\ Track) /\ UNCHANGED <<twin, calc>>
Read   == steps < MaxOps /\ read /\ Track /\ UNCHANGED <<twin, calc>>
PWrite == steps < MaxOps /\ (\E d \in Values : p_write(d) /\ Track) /\ UNCHANGED <<twin, calc>>
PRead  == steps < MaxOps /\ p_read /\ Track /\ UNCHANGED <<twin, calc>>

\* every operation, in any order
Next == Write \/ Read \/ PWrite \/ PRead
Spec == Init /\ [][Next]_vars

\* protected operations only
NextP == PWrite \/ PRead
SpecP == Init /\ [][NextP]_vars

\* unprotected operations only
NextU == Write \/ Read
SpecU == Init /\ [][NextU]_vars

\* both forms, given the same calls: each call is made on the reference form
\* and then on the value form
Due ==
    /\ twin' = [twin EXCEPT !.due = [op |-> last'.op, data |-> last'.data]]
    /\ UNCHANGED calc
InStep == twin.due = NoDue
EqWrite  == InStep /\ steps < MaxOps /\ \E d \in Values : write(d) /\ Track /\ Due
EqRead   == InStep /\ steps < MaxOps /\ read /\ Track /\ Due
EqPWrite == InStep /\ steps < MaxOps /\ \E d \in Values : p_write(d) /\ Track /\ Due
EqPRead  == InStep /\ steps < MaxOps /\ p_read /\ Track /\ Due
EqTwin ==
    /\ ~InStep
    /\ \E b \in Call1(twin, twin.due) : twin' = [b EXCEPT !.due = NoDue]
    /\ UNCHANGED <<prog, obs, calc>>
NextEq == EqWrite \/ EqRead \/ EqPWrite \/ EqPRead \/ EqTwin
\* a reference-form and a value-form buffer of one capacity and contents
InitEq == Fresh /\ twin = RingBuffer1(addr, arrLen) /\ calc = NoCalc
SpecEq == InitEq /\ [][NextEq]_vars

\* nothing has been called; r is the run the calls to come start from
Uncalled(r) ==
    /\ last = NoCall
    /\ steps = 0
    /\ unread = {}
    /\ balance = 0
    /\ accRet = {}
    /\ advItem = {}
    /\ run = r
    /\ streak = NoStreak

\* the EMPTY branch of p_read on its own, over every capacity a uint8_t
\* holds and every read cursor: a drained buffer (EMPTY set, cursors equal)
\* on which p_read computes its index
InitClamp ==
    /\ arrLen \in 1..(U8 - 1)
    /\ addr = [i \in 0..(arrLen - 1) |-> 0]
    /\ readPos \in 0..(arrLen - 1)
    /\ writePos = readPos
    /\ flags = FLAG_EMPTY
    /\ Uncalled(NoRun)
    /\ twin = NoTwin
    /\ calc = NoCalc
EmptyPath ==
    /\ CHECK_BITMASK(flags, FLAG_EMPTY) # 0
    /\ ~calc.done
    /\ calc' = [index |-> EmptyIndex(readPos, arrLen), done |-> TRUE]
    /\ UNCHANGED <<prog, obs, twin>>
NextClamp == EmptyPath
SpecClamp == InitClamp /\ [][NextClamp]_vars

\* construction of a buffer whose memory is not zeroed beforehand (an
\* automatic or heap-allocated object): the bytes of readPos, writePos and
\* flags hold whatever the memory held
InitRaw ==
    /\ addr = <<>>
    /\ arrLen = 0
    /\ readPos \in 0..MaxJunk
    /\ writePos \in 0..MaxJunk
    /\ flags \in 0..MaxJunk
    /\ Uncalled(FreshRun)
    /\ twin = NoTwin
    /\ calc = NoCalc
Constructor ==
    /\ last.op = "none"
    /\ \E n \in 1..MaxCap : \E arr \in [0..(n - 1) -> Values] : Construct(arr, n)
    /\ last' = [NoCall EXCEPT !.op = "RingBuffer", !.ok = TRUE]
    /\ UNCHANGED <<steps, unread, balance, accRet, advItem, run, streak, twin, calc>>
NextCtor == Constructor
SpecCtor == InitRaw /\ [][NextCtor]_vars

\* ------------------------------------------------------------------- claims
InRange(pos) == pos \in 0..(arrLen - 1)
IsFifo(r) == \A j \in 1..Len(r.drain) : r.drain[j] = {r.fill[j]}
Filled(r, f) == r.mode = "fill" /\ r.fam = f /\ Len(r.fill) = arrLen
Drained(r, f) == r.mode = "drain" /\ r.fam = f /\ Len(r.fill) = arrLen
                 /\ Len(r.drain) = arrLen

\* C1 (Spec): after every write, read, p_write or p_read on a buffer of
\* capacity N >= 1 that starts with both cursors at 0, readPos and writePos
\* are each in 0..N-1.
C1_CursorsInRange == InRange(readPos) /\ InRange(writePos)
\* the write cursor has wrapped and a p_read then used an index outside the array
C1_Witness ==
    /\ arrLen = MaxCap /\ accRet = {0}
    /\ last.op = "p_read" /\ last.ok /\ last.item = arrLen

\* C2 (SpecP): starting with both flags clear, after any sequence of p_write
\* and p_read calls FULL and EMPTY are never both set.
C2_NeverFullAndEmpty == ~(isFull /\ isEmpty)
\* a p_write set FULL after a p_read had advanced
C2_Witness ==
    /\ isFull /\ last.op = "p_write" /\ last.ok
    /\ advItem # {} /\ steps >= 3

\* C3 (SpecP): a p_write never stores into a slot that holds a value stored
\* by an earlier accepted p_write and not yet returned by an advancing
\* p_read; accepted writes minus advancing reads never exceeds the capacity.
C3_NoOverwriteOfUnread ==
    [][ /\ (last'.op = "p_write" /\ last'.ok) => writePos \notin unread
        /\ balance' <= arrLen ]_vars

\* C4 (SpecP): the p_read calls that advance the read cursor never outnumber
\* the accepted p_write calls, and every advancing p_read returns a slot
\* that holds a value stored by a p_write and not returned before.
C4_NoReadPastWrite ==
    [][ /\ balance' >= 0
        /\ (last'.op = "p_read" /\ last'.ok) => last'.item \in unread ]_vars

\* C5 (SpecP): on a fresh buffer of capacity N, N consecutive p_write calls
\* are all accepted and leave FULL set and EMPTY clear; the next p_write is
\* a no-op; N consecutive p_read calls after that leave EMPTY set and FULL
\* clear.
C5_FillThenDrain ==
    [][ /\ (run.mode = "fill" /\ Len(run.fill) < arrLen /\ last'.op = "p_write")
              => last'.ok
        /\ Filled(run', "p") => (isFull' /\ ~isEmpty')
        /\ (Filled(run, "p") /\ last'.op = "p_write") => UNCHANGED prog
        /\ Drained(run', "p") => (isEmpty' /\ ~isFull') ]_vars

\* C6 (SpecP): on a fresh buffer of capacity N, for 1 <= k <= N, after k
\* accepted p_write calls with values v1..vk the next k p_read calls return
\* v1..vk in that order.
C6_ProtectedFifo == (run.mode = "drain" /\ run.fam = "p") => IsFifo(run)

\* C7 (SpecP): with FULL set, p_write changes no storage, cursor or flag,
\* and consecutive p_write calls while FULL stays set return the same index.
C7_RejectedWriteIsNoOp ==
    [][ (isFull /\ last'.op = "p_write") =>
          /\ UNCHANGED prog
          /\ ~last'.ok
          /\ (last.op = "p_write" /\ ~last.ok) => last'.ret = last.ret ]_vars
\* only p_write calls so far, the last two (or more) of them rejected
C7_Witness ==
    /\ arrLen = MaxCap /\ advItem = {} /\ steps - balance >= 2
    /\ last.op = "p_write" /\ ~last.ok

\* C8 (SpecP): with FULL set, p_write returns the current, unadvanced write
\* cursor, which is what the preceding accepted p_write returned.
C8_RejectedReturnsWritePos ==
    (last.op = "p_write" /\ ~last.ok) => (last.ret = writePos /\ accRet = {last.ret})

\* C9 (SpecP): with EMPTY set, p_read does not advance the read cursor,
\* changes no flag and no storage, and returns the slot that the most recent
\* advancing p_read returned.
C9_EmptyReadRepeats ==
    [][ (isEmpty /\ last'.op = "p_read") =>
          /\ UNCHANGED prog
          /\ ~last'.ok
          /\ advItem = {last'.item} ]_vars

\* C10 (SpecU): on a fresh buffer of capacity N, for 1 <= k <= N, after k
\* write calls with values v1..vk and no read in between, the next k read
\* calls return v1..vk in that order.
C10_UnprotectedFifo == (run.mode = "drain" /\ run.fam = "u") => IsFifo(run)
\* a full buffer of differing values was written and read back completely
C10_Witness ==
    /\ arrLen = MaxCap /\ Drained(run, "u")
    /\ run.fill[1] # run.fill[arrLen]

\* C11 (SpecU): each write returns the advanced write cursor; after N writes
\* in a row on a buffer of capacity N the write cursor is back where it was
\* before the first; the (N+1)th stores into the slot the first one wrote
\* and leaves the read cursor alone, so that on a fresh buffer the next read
\* returns the (N+1)th value.
C11_WrapOverwrites ==
    [][ /\ last'.op = "write" =>
              (last'.ret = writePos' /\ writePos' = (writePos + 1) % arrLen)
        /\ streak'.n = arrLen => writePos' = streak'.wp
        /\ streak'.n = arrLen + 1 =>
              (addr'[streak'.wp] = last'.data /\ readPos' = streak'.rp)
        /\ (streak.n = arrLen + 1 /\ steps = arrLen + 1 /\ last'.op = "read") =>
              (last'.item = 0 /\ last'.val = {last.data}) ]_vars
\* a fresh buffer took N + 1 writes and then one read
C11_Witness ==
    /\ arrLen = MaxCap /\ steps = arrLen + 2 /\ balance = arrLen
    /\ last.op = "read" /\ readPos = 1

\* C12 (Spec): write(x) changes only the slot at the old write cursor and
\* the write cursor; read() returns the element at the old read cursor and
\* changes only the read cursor.  Neither touches the other cursor, the
\* flags or (for read) the storage.
C12_UnprotectedFrame ==
    [][ /\ last'.op = "write" =>
              /\ addr' = [addr EXCEPT ![writePos] = last'.data]
              /\ UNCHANGED <<arrLen, readPos, flags>>
        /\ last'.op = "read" =>
              /\ last'.item = readPos /\ last'.val = {addr[readPos]}
              /\ UNCHANGED <<addr, arrLen, writePos, flags>> ]_vars
\* a read was made while FULL was set and left it set
C12_Witness ==
    /\ last.op = "read" /\ isFull /\ readPos # writePos

\* C13 (SpecEq): a value-form and a reference-form buffer of the same
\* capacity and contents, given the same calls, have the same cursors and
\* flags after every call, return the same index from every write and the
\* same element from every read.
C13_FormsAgree ==
    InStep =>
      /\ twin.readPos = readPos /\ twin.writePos = writePos
      /\ twin.flags = flags
      /\ IsWrite(last) => twin.last.ret = last.ret
      /\ IsRead(last) => (twin.last.val = last.val /\ Cardinality(last.val) = 1)

\* C14 (SpecP): with EMPTY clear, p_read returns the element at the read
\* cursor, sets the read cursor to (old + 1) mod capacity, clears FULL and
\* sets EMPTY exactly when the advanced, wrapped read cursor equals the
\* write cursor (so also when it wraps to 0 with the write cursor at 0).
C14_ReadAdvances ==
    [][ (~isEmpty /\ last'.op = "p_read") =>
          /\ last'.item = readPos /\ last'.val = {addr[readPos]}
          /\ readPos' = (readPos + 1) % arrLen
          /\ ~isFull'
          /\ isEmpty' <=> (readPos' = writePos') ]_vars

\* C15 (SpecP): with FULL clear, p_write stores the data in the slot at the
\* write cursor, sets the write cursor to (old + 1) mod capacity, returns
\* that cursor, clears EMPTY, sets FULL exactly when the new write cursor
\* equals the read cursor, and leaves the read cursor and every other slot
\* unchanged.
C15_WriteAdvances ==
    [][ (~isFull /\ last'.op = "p_write") =>
          /\ last'.ok
          /\ addr' = [addr EXCEPT ![writePos] = last'.data]
          /\ writePos' = (writePos + 1) % arrLen
          /\ last'.ret = writePos'
          /\ ~isEmpty'
          /\ isFull' <=> (writePos' = readPos)
          /\ UNCHANGED <<arrLen, readPos>> ]_vars
\* an accepted p_write wrapped the write cursor to 0 and set FULL
C15_Witness ==
    /\ arrLen = MaxCap /\ last.op = "p_write" /\ last.ok
    /\ last.ret = 0 /\ isFull

\* C16 (SpecP): the index a rejected p_write returns differs from the index
\* an accepted p_write would return from the same write cursor,
\* (writePos + 1) mod N.
C16_RejectionDetectable ==
    (last.op = "p_write" /\ ~last.ok) => last.ret # (writePos + 1) % arrLen

\* C17 (SpecClamp): with uint8_t cursors and any capacity N in 1..255, the
\* index p_read computes with EMPTY set is a slot index in 0..N-1, and with
\* the read cursor at 0 (readPos - 1 wraps to 255) it is N-1.
C17_EmptyIndexIsSlot ==
    calc.done =>
      /\ calc.index \in 0..(arrLen - 1)
      /\ readPos = 0 => calc.index = arrLen - 1

\* C18 (SpecCtor): right after construction with an array and an element
\* count, readPos and writePos are 0 and FULL and EMPTY are clear.
C18_ConstructedZero ==
    last.op = "RingBuffer" =>
      (readPos = 0 /\ writePos = 0 /\ ~isFull /\ ~isEmpty)

\* C19 (SpecP): a set flag implies equal cursors: FULL implies
\* writePos = readPos, and EMPTY implies readPos = writePos.
C19_FlagImpliesEqualCursors ==
    /\ isFull => writePos = readPos
    /\ isEmpty => readPos = writePos
\* EMPTY was set away from slot 0, after a write
C19_Witness ==
    /\ isEmpty /\ readPos = writePos /\ readPos # 0 /\ accRet # {}

\* C20 (SpecP): after one or more p_write and p_read calls, equal cursors
\* come with exactly one of FULL and EMPTY set: FULL when the last accepted
\* call was a write, EMPTY when it was a read.
C20_EqualCursorsUnambiguous ==
    (steps >= 1 /\ readPos = writePos) =>
      /\ isFull # isEmpty
      /\ (last.ok /\ last.op = "p_write") => isFull
      /\ (last.ok /\ last.op = "p_read") => isEmpty
====
